---- MODULE Spec2Model ----
(***************************************************************************)
(* vpeakserver (main.go, the variant with speed/pitch and the settings UI, *)
(* lines 120-673): the HTTP handlers, the CORS middleware and the two      *)
(* package-level settings variables, as a state machine.                   *)
(*                                                                         *)
(* Strings that the code inspects character by character (the Origin       *)
(* header, allowedOrigin, the raw speed/pitch query parameters) are        *)
(* sequences of one-character strings.  Strings that the code only         *)
(* compares for equality (method, path, mode, text, speaker, emotion) are  *)
(* TLA+ strings.  An optional value (a *int, a response header) is a       *)
(* sequence of length 0 (nil / not set) or 1.                              *)
(*                                                                         *)
(* corsPolicyMode and allowedOrigin are plain package variables, read and  *)
(* written by the request goroutines without synchronisation.  Every load  *)
(* and every store of one of them is a step of its own, so a reader may    *)
(* see either value of a variable that is being replaced; a load that      *)
(* tears inside one string is not modelled.                                *)
(***************************************************************************)
EXTENDS Integers, Sequences, FiniteSets, TLC

VARIABLES corsPolicyMode, allowedOrigin, files, workers, last

vars == <<corsPolicyMode, allowedOrigin, files, workers, last>>

-----------------------------------------------------------------------------
(* Bounds of the model *)

\* number of requests the server accepts in one run; net/http serves each on a
\* goroutine of its own, so that many may be in flight at once
MaxReqs == 2
\* how far beyond each end of a numeric range the probed integers reach
Margin == 2

-----------------------------------------------------------------------------
(* Program constants *)

speedMin == 50
speedMax == 200
pitchMin == -300
pitchMax == 300

StatusOK == 200
StatusBadRequest == 400
StatusNotFound == 404
StatusMethodNotAllowed == 405
StatusInternalServerError == 500

validEmotions == {"happy", "fun", "angry", "sad"}

-----------------------------------------------------------------------------
(* Strings *)

EmptyStr == <<>>
Star == <<"*">>
appPrefix == <<"a", "p", "p", ":", "/", "/">>
localhostPrefix == <<"h", "t", "t", "p", ":", "/", "/", "l", "o", "c", "a", "l", "h", "o", "s", "t">>
OriginApp == <<"a", "p", "p", ":", "/", "/", "x">>
OriginNearApp == <<"a", "p", "p", ":", "/", "x">>
OriginLocalhost == <<"h", "t", "t", "p", ":", "/", "/", "l", "o", "c", "a", "l", "h", "o", "s", "t", ":", "3">>
OriginEvil == <<"h", "t", "t", "p", ":", "/", "/", "e", "v", "i", "l", ".", "e", "x", "a", "m", "p", "l", "e">>
OriginGood == <<"h", "t", "t", "p", ":", "/", "/", "g", "o", "o", "d", ".", "e", "x", "a", "m", "p", "l", "e">>
OriginOther == <<"h", "t", "t", "p", ":", "/", "/", "o", "t", "h", "e", "r", ".", "e", "x", "a", "m", "p", "l", "e">>
OriginList == OriginGood \o <<" ">> \o OriginOther
OriginGap == OriginGood \o <<" ", " ">> \o OriginOther

AllowMethodsValue == <<"G", "E", "T", ",", " ", "P", "O", "S", "T", ",", " ", "O", "P", "T", "I", "O", "N", "S">>
AllowHeadersValue == <<"C", "o", "n", "t", "e", "n", "t", "-", "T", "y", "p", "e">>

\* strings.HasPrefix
HasPrefix(s, prefix) ==
    /\ Len(s) >= Len(prefix)
    /\ SubSeq(s, 1, Len(prefix)) = prefix

\* strings.Split(s, sep) for a one-character separator: the substrings between
\* the separators, so n separators give n+1 substrings, empty ones included
RECURSIVE Split(_, _)
Split(s, sep) ==
    IF \A i \in 1..Len(s) : s[i] # sep
    THEN <<s>>
    ELSE LET i == CHOOSE k \in 1..Len(s) :
                      /\ s[k] = sep
                      /\ \A j \in 1..(k - 1) : s[j] # sep
         IN  <<SubSeq(s, 1, i - 1)>> \o Split(SubSeq(s, i + 1, Len(s)), sep)

\* containsOrigin with the list searched for the origin as a prefix instead of
\* being split into its pieces
containsOriginPrefix(allowedOrigins, origin) == HasPrefix(allowedOrigins, origin)

\* containsOrigin (main.go:222): origin equals one of the substrings of
\* allowedOrigins between single spaces
containsOrigin(allowedOrigins, origin) ==
    LET origins == Split(allowedOrigins, " ")
    IN  \E i \in 1..Len(origins) : origins[i] = origin

-----------------------------------------------------------------------------
(* Decimal strings: strconv.Itoa and strconv.Atoi *)

Digits == <<"0", "1", "2", "3", "4", "5", "6", "7", "8", "9">>

IsDigit(c) == \E d \in 1..10 : Digits[d] = c

DigitValue(c) == (CHOOSE d \in 1..10 : Digits[d] = c) - 1

RECURSIVE UItoa(_)
UItoa(n) ==
    IF n < 10 THEN <<Digits[n + 1]>>
    ELSE UItoa(n \div 10) \o <<Digits[(n % 10) + 1]>>

\* the decimal string of an integer, as a client writes it into the query string
Itoa(n) == IF n < 0 THEN <<"-">> \o UItoa(0 - n) ELSE UItoa(n)

RECURSIVE UAtoi(_)
UAtoi(s) ==
    IF Len(s) = 0 THEN 0
    ELSE 10 * UAtoi(SubSeq(s, 1, Len(s) - 1)) + DigitValue(s[Len(s)])

\* a conversion that reads the leading sign and digits and ignores what follows
AtoiLeading(s) ==
    LET signed == Len(s) > 0 /\ s[1] \in {"+", "-"}
        rest == IF signed THEN Tail(s) ELSE s
        k == CHOOSE n \in 0..Len(rest) :
                 /\ \A i \in 1..n : IsDigit(rest[i])
                 /\ n = Len(rest) \/ ~IsDigit(rest[n + 1])
    IN  IF k = 0 THEN [err |-> TRUE, value |-> 0]
        ELSE [err |-> FALSE,
              value |-> IF signed /\ s[1] = "-" THEN 0 - UAtoi(SubSeq(rest, 1, k))
                        ELSE UAtoi(SubSeq(rest, 1, k))]

\* strconv.Atoi: an optional sign followed by at least one decimal digit and
\* nothing else; anything else is a syntax error.  (Its other error, a value
\* that does not fit an int, needs 19 digits or more; the raw strings drawn
\* below have four characters at most.)
Atoi(s) ==
    LET signed == Len(s) > 0 /\ s[1] \in {"+", "-"}
        digits == IF signed THEN SubSeq(s, 2, Len(s)) ELSE s
    IN  IF Len(digits) = 0 \/ \E i \in 1..Len(digits) : ~IsDigit(digits[i])
        THEN [err |-> TRUE, value |-> 0]
        ELSE [err |-> FALSE,
              value |-> IF signed /\ s[1] = "-" THEN 0 - UAtoi(digits) ELSE UAtoi(digits)]

-----------------------------------------------------------------------------
(* Validation helpers *)

\* the error values of parseOptionalIntParam and validateOptionalRange
NoError == [kind |-> "nil", lo |-> 0, hi |-> 0]
ConvertError == [kind |-> "failed to convert to integer", lo |-> 0, hi |-> 0]
RangeError(min, max) == [kind |-> "value must be between", lo |-> min, hi |-> max]

\* parseOptionalIntParam with the ends of the range excluded
parseOptionalIntParamExclusive(raw, min, max) ==
    IF raw = EmptyStr THEN [value |-> <<>>, err |-> NoError]
    ELSE LET parsed == Atoi(raw)
         IN  IF parsed.err THEN [value |-> <<>>, err |-> ConvertError]
             ELSE IF parsed.value <= min \/ parsed.value >= max
                  THEN [value |-> <<>>, err |-> RangeError(min, max)]
                  ELSE [value |-> <<parsed.value>>, err |-> NoError]

\* parseOptionalIntParam with a zero taken for a missing value
parseOptionalIntParamZeroAbsent(raw, min, max) ==
    IF raw = EmptyStr THEN [value |-> <<>>, err |-> NoError]
    ELSE LET parsed == Atoi(raw)
         IN  IF parsed.err THEN [value |-> <<>>, err |-> ConvertError]
             ELSE IF parsed.value < min \/ parsed.value > max
                  THEN [value |-> <<>>, err |-> RangeError(min, max)]
                  ELSE IF parsed.value = 0 THEN [value |-> <<>>, err |-> NoError]
                  ELSE [value |-> <<parsed.value>>, err |-> NoError]

\* parseOptionalIntParam (main.go:168): (*int, error)
parseOptionalIntParam(raw, min, max) ==
    IF raw = EmptyStr THEN [value |-> <<>>, err |-> NoError]
    ELSE LET parsed == Atoi(raw)
         IN  IF parsed.err THEN [value |-> <<>>, err |-> ConvertError]
             ELSE IF parsed.value < min \/ parsed.value > max
                  THEN [value |-> <<>>, err |-> RangeError(min, max)]
                  ELSE [value |-> <<parsed.value>>, err |-> NoError]

\* validateOptionalRange with negative values always refused
validateOptionalRangeUnsigned(value, min, max) ==
    IF value = <<>> THEN NoError
    ELSE IF value[1] < 0 \/ value[1] < min \/ value[1] > max THEN RangeError(min, max)
         ELSE NoError

\* validateOptionalRange that finds every value in range
validateOptionalRangeAny(value, min, max) == NoError

\* validateOptionalRange (main.go:185): error
validateOptionalRange(value, min, max) ==
    IF value = <<>> THEN NoError
    ELSE IF value[1] < min \/ value[1] > max THEN RangeError(min, max)
         ELSE NoError

\* the emotion passed on as it came, without the lookup
normalizeEmotionKeep(emotion) == emotion

\* validEmotions lookup of main.go:397 and main.go:428
normalizeEmotion(emotion) == IF emotion \in validEmotions THEN emotion ELSE ""


-----------------------------------------------------------------------------
(* Requests and responses *)

\* AudioQuery (main.go:147); Speed and Pitch are *int
NoQuery == [text |-> "", speaker |-> "", emotion |-> "", speed |-> <<>>, pitch |-> <<>>]

\* the query string of /audio_query: url.Values.Get gives "" for a missing key
NoParams == [text |-> "", speaker |-> "", emotion |-> "", speed |-> EmptyStr, pitch |-> EmptyStr]

\* the body of /synthesis as json.Decoder sees it: undecodable, or the AudioQuery
\* it decodes to (a missing key leaves the zero value, a missing speed/pitch nil)
NoBody == [malformed |-> FALSE, query |-> NoQuery]

\* SettingsData (main.go:155) as decoded from the body of /update-settings
NoSettings == [malformed |-> FALSE, mode |-> "", origin |-> EmptyStr]

NoInput == [params |-> NoParams, body |-> NoBody, settings |-> NoSettings]

\* json.Encoder on an AudioQuery: text, speaker and emotion carry no omitempty
\* and are always written; speed and pitch (omitempty) are written unless nil
jsonAudioQuery(q) ==
    ("text" :> q.text) @@ ("speaker" :> q.speaker) @@ ("emotion" :> q.emotion)
    @@ (IF q.speed = <<>> THEN <<>> ELSE ("speed" :> q.speed[1]))
    @@ (IF q.pitch = <<>> THEN <<>> ELSE ("pitch" :> q.pitch[1]))

NoBodyOut == [kind |-> "none", what |-> "", err |-> NoError, json |-> <<>>,
              audio |-> <<>>, page |-> NoSettings]

\* http.Error(w, fmt.Sprintf(what + ": %v", err), status)
ErrorResp(status, what, err) ==
    [status |-> status, ctype |-> "text/plain",
     body |-> [NoBodyOut EXCEPT !.kind = "text", !.what = what, !.err = err]]

\* a handler that returns without writing anything: net/http answers 200, no body
EmptyResp == [status |-> StatusOK, ctype |-> "", body |-> NoBodyOut]

NoResp == [status |-> 0, ctype |-> "", body |-> NoBodyOut]

\* the request refused only when text and speaker are both missing
missingRequiredBoth(text, speaker) == text = "" /\ speaker = ""

\* main.go:380
missingRequired(text, speaker) == text = "" \/ speaker = ""

\* the body of the /audio_query handler with the pitch checked before the speed
audioQueryBodyPitchFirst(p) ==
    IF missingRequired(p.text, p.speaker)
    THEN ErrorResp(StatusBadRequest, "Missing required parameters: text and speaker", NoError)
    ELSE LET speed == parseOptionalIntParam(p.speed, speedMin, speedMax)
             pitch == parseOptionalIntParam(p.pitch, pitchMin, pitchMax)
         IN  IF pitch.err # NoError
             THEN ErrorResp(StatusBadRequest, "Invalid pitch parameter", pitch.err)
             ELSE IF speed.err # NoError
             THEN ErrorResp(StatusBadRequest, "Invalid speed parameter", speed.err)
             ELSE [status |-> StatusOK, ctype |-> "application/json",
                   body |-> [NoBodyOut EXCEPT
                       !.kind = "json",
                       !.json = jsonAudioQuery([text |-> p.text, speaker |-> p.speaker,
                                                emotion |-> normalizeEmotion(p.emotion),
                                                speed |-> speed.value,
                                                pitch |-> pitch.value])]]

\* the body of the /audio_query handler after its method check (main.go:376-413)
audioQueryBody(p) ==
    IF missingRequired(p.text, p.speaker)
    THEN ErrorResp(StatusBadRequest, "Missing required parameters: text and speaker", NoError)
    ELSE LET speed == parseOptionalIntParam(p.speed, speedMin, speedMax)
             pitch == parseOptionalIntParam(p.pitch, pitchMin, pitchMax)
         IN  IF speed.err # NoError
             THEN ErrorResp(StatusBadRequest, "Invalid speed parameter", speed.err)
             ELSE IF pitch.err # NoError
             THEN ErrorResp(StatusBadRequest, "Invalid pitch parameter", pitch.err)
             ELSE [status |-> StatusOK, ctype |-> "application/json",
                   body |-> [NoBodyOut EXCEPT
                       !.kind = "json",
                       !.json = jsonAudioQuery([text |-> p.text, speaker |-> p.speaker,
                                                emotion |-> normalizeEmotion(p.emotion),
                                                speed |-> speed.value,
                                                pitch |-> pitch.value])]]

\* the method check letting GET through as well
notPostNorGet(method) == method \notin {"POST", "GET"}

\* the method check that lets every method through
notPostNever(method) == FALSE

\* the method check that opens the /audio_query, /synthesis and
\* /update-settings handlers (main.go:371, 417, 651)
notPost(method) == method # "POST"

MethodNotAllowed == ErrorResp(StatusMethodNotAllowed, "Only POST method is allowed", NoError)

\* the /audio_query handler (main.go:370-414)
audioQueryHandler(method, p) ==
    IF notPost(method) THEN MethodNotAllowed ELSE audioQueryBody(p)

\* the /synthesis handler up to the point where it names the artifact
\* (main.go:417-440): the error response, or the query it goes on with
synthesisValidate(method, b) ==
    IF notPost(method) THEN [ok |-> FALSE, resp |-> MethodNotAllowed, query |-> NoQuery]
    ELSE IF b.malformed
    THEN [ok |-> FALSE, query |-> NoQuery,
          resp |-> ErrorResp(StatusBadRequest, "Failed to decode request body", NoError)]
    ELSE LET query == [b.query EXCEPT !.emotion = normalizeEmotion(b.query.emotion)]
             speedErr == validateOptionalRange(query.speed, speedMin, speedMax)
             pitchErr == validateOptionalRange(query.pitch, pitchMin, pitchMax)
         IN  IF speedErr # NoError
             THEN [ok |-> FALSE, query |-> NoQuery,
                   resp |-> ErrorResp(StatusBadRequest, "Invalid speed", speedErr)]
             ELSE IF pitchErr # NoError
             THEN [ok |-> FALSE, query |-> NoQuery,
                   resp |-> ErrorResp(StatusBadRequest, "Invalid pitch", pitchErr)]
             ELSE [ok |-> TRUE, query |-> query, resp |-> NoResp]

\* vpeak.Options and the text, as handed to vpeak.GenerateSpeech (main.go:444-453)
speechCall(query, name) ==
    [text |-> query.text, Narrator |-> query.speaker, Emotion |-> query.emotion,
     Output |-> name, Silent |-> TRUE, Speed |-> query.speed, Pitch |-> query.pitch]


-----------------------------------------------------------------------------
(* The CORS middleware, main.go:198-220 *)

\* main.go:202
modeIsAll(mode) == mode = "all"

\* every mode other than all treated as localapps
modeIsNotAll(mode) == mode # "all"

\* main.go:204
modeIsLocalapps(mode) == mode = "localapps"

\* the origin echoed in mode "all" instead of the wildcard
allowAllValueEcho(origin) == origin

\* main.go:203: the value set when the mode is "all"
allowAllValue(origin) == Star

\* the wildcard given to an origin that localapps mode lets in
allowOriginValueStar(origin) == Star

\* main.go:206: the value set when localapps mode lets the origin in
allowOriginValue(origin) == origin

\* the first two disjuncts of main.go:205, which read no shared variable
isLocalOrigin(origin) ==
    HasPrefix(origin, appPrefix) \/ HasPrefix(origin, localhostPrefix)

\* the middleware without its Access-Control-Allow-Headers line
corsHeadersNoAllowHeaders(acao) ==
    [acao |-> acao, acam |-> <<AllowMethodsValue>>, acah |-> <<>>]

\* main.go:210-211: the headers of the response once the middleware has run
corsHeaders(acao) ==
    [acao |-> acao, acam |-> <<AllowMethodsValue>>, acah |-> <<AllowHeadersValue>>]

\* the headers of a response of a handler registered without enableCORS
NoHeaders == [acao |-> <<>>, acam |-> <<>>, acah |-> <<>>]

\* the middleware without its OPTIONS short-circuit
isPreflightNever(method) == FALSE

\* main.go:213
isPreflight(method) == method = "OPTIONS"

-----------------------------------------------------------------------------
(* State *)

Workers == 1..MaxReqs

WrappedPaths == {"/audio_query", "/synthesis"}

\* workers[w] is the goroutine that serves the w-th request accepted: where it
\* stands (pc), what it has read of the request and of the settings, and its
\* locals.  name is outputFileName, drawn at main.go:442.  calls are the
\* calls of vpeak.GenerateSpeech it has made, returned what each call returned.
IdleWorker ==
    [pc |-> "idle", path |-> "", method |-> "", origin |-> EmptyStr,
     modeRead |-> <<>>, aoRead |-> <<>>, acao |-> <<>>,
     input |-> NoInput, query |-> NoQuery, name |-> <<>>, calls |-> <<>>,
     returned |-> <<>>, resp |-> NoResp]

DoneWorker == [IdleWorker EXCEPT !.pc = "done"]

\* last: the request whose handler returned in the step just taken, with its
\* response; NoLast after a step in which no handler returned
NoLast == [req |-> IdleWorker, resp |-> NoResp, headers |-> NoHeaders, reached |-> FALSE]

\* the handler of worker w returns: the response is complete, the worker is free
Respond(w, rec, resp, headers, reached) ==
    /\ workers' = [workers EXCEPT ![w] = DoneWorker]
    /\ last' = [req |-> rec, resp |-> resp, headers |-> headers, reached |-> reached]

\* net/http accepts the w-th request and starts its handler
Accept(w) ==
    /\ workers[w].pc = "idle"
    /\ \A v \in 1..(w - 1) : workers[v].pc # "idle"

-----------------------------------------------------------------------------
(* Actions *)

\* enableCORS, main.go:200-205 up to the first read of allowedOrigin: reads the
\* Origin header and corsPolicyMode
enableCORS(w, paths, origins) ==
    /\ Accept(w)
    /\ \E path \in paths, origin \in origins :
         LET mode == corsPolicyMode
             rec == [IdleWorker EXCEPT !.path = path,
                                       !.origin = origin, !.modeRead = <<mode>>]
         IN  workers' = [workers EXCEPT ![w] =
                 IF modeIsAll(mode)
                 THEN [rec EXCEPT !.pc = "handler", !.acao = <<allowAllValue(origin)>>]
                 ELSE IF modeIsLocalapps(mode)
                 THEN IF isLocalOrigin(origin)
                      THEN [rec EXCEPT !.pc = "handler",
                                       !.acao = <<allowOriginValue(origin)>>]
                      ELSE [rec EXCEPT !.pc = "cors_equal"]
                 ELSE [rec EXCEPT !.pc = "handler"]]
    /\ last' = NoLast
    /\ UNCHANGED <<corsPolicyMode, allowedOrigin, files>>

\* main.go:205, third disjunct: origin == allowedOrigin
corsEqual(w) ==
    /\ workers[w].pc = "cors_equal"
    /\ LET rec == [workers[w] EXCEPT !.aoRead = Append(@, allowedOrigin)]
       IN  workers' = [workers EXCEPT ![w] =
               IF rec.origin = allowedOrigin
               THEN [rec EXCEPT !.pc = "handler",
                                !.acao = <<allowOriginValue(rec.origin)>>]
               ELSE [rec EXCEPT !.pc = "cors_contains"]]
    /\ last' = NoLast
    /\ UNCHANGED <<corsPolicyMode, allowedOrigin, files>>

\* main.go:205, fourth disjunct: containsOrigin(allowedOrigin, origin)
corsContains(w) ==
    /\ workers[w].pc = "cors_contains"
    /\ LET rec == [workers[w] EXCEPT !.aoRead = Append(@, allowedOrigin)]
       IN  workers' = [workers EXCEPT ![w] =
               IF containsOrigin(allowedOrigin, rec.origin)
               THEN [rec EXCEPT !.pc = "handler",
                                !.acao = <<allowOriginValue(rec.origin)>>]
               ELSE [rec EXCEPT !.pc = "handler"]]
    /\ last' = NoLast
    /\ UNCHANGED <<corsPolicyMode, allowedOrigin, files>>

\* main.go:210-216: an OPTIONS request is answered by the middleware
preflight(w, methods) ==
    /\ workers[w].pc = "handler"
    /\ \E method \in methods :
         /\ isPreflight(method)
         /\ Respond(w, [workers[w] EXCEPT !.method = method],
                    [status |-> StatusOK, ctype |-> "", body |-> NoBodyOut],
                    corsHeaders(workers[w].acao), FALSE)
    /\ UNCHANGED <<corsPolicyMode, allowedOrigin, files>>

\* main.go:218 and 370-414: the /audio_query handler
audioQuery(w, methods, params) ==
    /\ workers[w].pc = "handler"
    /\ workers[w].path = "/audio_query"
    /\ \E method \in methods, p \in params :
         /\ ~isPreflight(method)
         /\ Respond(w, [workers[w] EXCEPT !.method = method, !.input.params = p],
                    audioQueryHandler(method, p), corsHeaders(workers[w].acao), TRUE)
    /\ UNCHANGED <<corsPolicyMode, allowedOrigin, files>>

\* one name shared by every request
outputFileNameFixed(w) == <<"audio-", ".wav">>

\* main.go:442: "audio-" + uuid.New().String() + ".wav"; the uuid of the w-th
\* request is written w
outputFileName(w) == <<"audio-", w, ".wav">>

\* main.go:218 and 416-451: the /synthesis handler up to the call of the
\* synthesis capability
synthesis(w, methods, bodies) ==
    /\ workers[w].pc = "handler"
    /\ workers[w].path = "/synthesis"
    /\ \E method \in methods, b \in bodies :
         LET v == synthesisValidate(method, b)
             rec == [workers[w] EXCEPT !.method = method, !.input.body = b]
         IN  /\ ~isPreflight(method)
             /\ IF v.ok
                THEN /\ workers' = [workers EXCEPT ![w] =
                            [rec EXCEPT !.pc = "generate", !.query = v.query,
                                        !.name = <<outputFileName(w)>>]]
                     /\ last' = NoLast
                ELSE Respond(w, rec, v.resp, corsHeaders(rec.acao), TRUE)
    /\ UNCHANGED <<corsPolicyMode, allowedOrigin, files>>

\* the call made again after it has returned an error
afterGenerateRetry(err) == IF err = "nil" THEN "serve" ELSE "generate"

\* main.go:453-458: where the handler goes once vpeak.GenerateSpeech has
\* returned: on to serving the file, or out with a 500
afterGenerate(err) == IF err = "nil" THEN "serve" ELSE "respond"

\* main.go:453-456: vpeak.GenerateSpeech, the opaque capability.  It returns
\* nil after writing the file, or an error, having written the file or not.
GenerateSpeech(w) ==
    /\ workers[w].pc = "generate"
    /\ \E outcome \in {"ok", "error", "error after writing"} :
         LET err == IF outcome = "ok" THEN "nil" ELSE "error"
             rec == [workers[w] EXCEPT
                        !.calls = Append(@, speechCall(workers[w].query, workers[w].name[1])),
                        !.returned = Append(@, err)]
             wrote == IF outcome = "error" THEN files ELSE files \cup {rec.name[1]}
         IN  /\ files' = wrote
             /\ IF afterGenerate(err) # "respond"
                THEN /\ workers' = [workers EXCEPT ![w] =
                            [rec EXCEPT !.pc = afterGenerate(err)]]
                     /\ last' = NoLast
                ELSE Respond(w, rec,
                             ErrorResp(StatusInternalServerError, "Failed to generate speech",
                                       [NoError EXCEPT !.kind = "synthesis"]),
                             corsHeaders(rec.acao), TRUE)
    /\ UNCHANGED <<corsPolicyMode, allowedOrigin>>

\* main.go:458-461: the defer is registered, then http.ServeFile streams the
\* file, or answers with an error when it cannot open or read it
ServeFile(w) ==
    /\ workers[w].pc = "serve"
    /\ \E readable \in BOOLEAN :
         LET rec == workers[w]
             resp == IF readable /\ rec.name[1] \in files
                     THEN [status |-> StatusOK, ctype |-> "audio/wav",
                           body |-> [NoBodyOut EXCEPT !.kind = "audio", !.audio = rec.name]]
                     ELSE ErrorResp(IF rec.name[1] \in files THEN StatusInternalServerError
                                    ELSE StatusNotFound, "ServeFile", NoError)
         IN  workers' = [workers EXCEPT ![w] = [rec EXCEPT !.pc = "return", !.resp = resp]]
    /\ last' = NoLast
    /\ UNCHANGED <<corsPolicyMode, allowedOrigin, files>>

\* main.go:462: the handler returns and the deferred os.Remove runs
handlerReturn(w) ==
    /\ workers[w].pc = "return"
    /\ files' = files \ {workers[w].name[1]}
    /\ Respond(w, workers[w], workers[w].resp, corsHeaders(workers[w].acao), TRUE)
    /\ UNCHANGED <<corsPolicyMode, allowedOrigin>>

\* main.go:238-368: the handler of "/", registered without enableCORS, which
\* net/http also calls for every path no other pattern matches; it answers 404
\* for those and the index page for "/", whatever the method, and reads neither
\* corsPolicyMode nor allowedOrigin
root(w, paths, methods) ==
    /\ Accept(w)
    /\ \E path \in paths, method \in methods :
         Respond(w, [IdleWorker EXCEPT !.path = path, !.method = method],
                 IF path # "/"
                 THEN ErrorResp(StatusNotFound, "404 page not found", NoError)
                 ELSE [status |-> StatusOK, ctype |-> "text/html; charset=utf-8",
                       body |-> [NoBodyOut EXCEPT !.kind = "html"]],
                 NoHeaders, TRUE)
    /\ UNCHANGED <<corsPolicyMode, allowedOrigin, files>>

\* main.go:465-466 and 636: the /setting handler, registered without
\* enableCORS; on GET it reads corsPolicyMode
setting(w, methods) ==
    /\ Accept(w)
    /\ \E method \in methods :
         LET rec == [IdleWorker EXCEPT !.path = "/setting",
                                       !.method = method]
         IN  IF method = "GET"
             THEN /\ workers' = [workers EXCEPT ![w] =
                         [rec EXCEPT !.pc = "setting_origin", !.modeRead = <<corsPolicyMode>>]]
                  /\ last' = NoLast
             ELSE Respond(w, rec, EmptyResp, NoHeaders, TRUE)
    /\ UNCHANGED <<corsPolicyMode, allowedOrigin, files>>

\* main.go:637-645: reads allowedOrigin and renders the page
settingRender(w) ==
    /\ workers[w].pc = "setting_origin"
    /\ LET rec == [workers[w] EXCEPT !.aoRead = <<allowedOrigin>>]
       IN  Respond(w, rec,
                   [status |-> StatusOK, ctype |-> "text/html; charset=utf-8",
                    body |-> [NoBodyOut EXCEPT !.kind = "html",
                                 !.page = [malformed |-> FALSE, mode |-> rec.modeRead[1],
                                           origin |-> allowedOrigin]]],
                   NoHeaders, TRUE)
    /\ UNCHANGED <<corsPolicyMode, allowedOrigin, files>>

\* main.go:650-662: the /update-settings handler, registered without
\* enableCORS, up to its first assignment
updateSettings(w, methods, bodies) ==
    /\ Accept(w)
    /\ \E method \in methods, b \in bodies :
         LET rec == [IdleWorker EXCEPT !.path = "/update-settings",
                                       !.method = method, !.input.settings = b]
         IN  IF notPost(method)
             THEN /\ Respond(w, rec, MethodNotAllowed, NoHeaders, TRUE)
                  /\ UNCHANGED corsPolicyMode
             ELSE IF b.malformed
             THEN /\ Respond(w, rec, ErrorResp(StatusBadRequest,
                                 "Failed to decode request body", NoError), NoHeaders, TRUE)
                  /\ UNCHANGED corsPolicyMode
             ELSE /\ corsPolicyMode' = b.mode
                  /\ workers' = [workers EXCEPT ![w] = [rec EXCEPT !.pc = "update_origin"]]
                  /\ last' = NoLast
    /\ UNCHANGED <<allowedOrigin, files>>

\* main.go:663-666: the second assignment and the answer
updateOrigin(w) ==
    /\ workers[w].pc = "update_origin"
    /\ allowedOrigin' = workers[w].input.settings.origin
    /\ Respond(w, workers[w],
               [status |-> StatusOK, ctype |-> "",
                body |-> [NoBodyOut EXCEPT !.kind = "success"]],
               NoHeaders, TRUE)
    /\ UNCHANGED <<corsPolicyMode, files>>


-----------------------------------------------------------------------------
(* Inputs *)

Methods == {"GET", "POST", "OPTIONS"}

\* values of the Origin header ("" is also what a request without one gives)
Origins == {EmptyStr, OriginApp, OriginEvil, OriginGood}

\* the flags -cors-policy-mode and -allowed-origin: their defaults
\* (main.go:233-234) and other values an operator may start the server with
BootSettings ==
    {[malformed |-> FALSE, mode |-> "localapps", origin |-> EmptyStr],
     [malformed |-> FALSE, mode |-> "all", origin |-> OriginGood]}

\* bodies of POST /update-settings
SettingsBodies ==
    {[malformed |-> TRUE, mode |-> "", origin |-> EmptyStr],
     [malformed |-> FALSE, mode |-> "all", origin |-> OriginGood],
     [malformed |-> FALSE, mode |-> "localapps", origin |-> OriginList],
     [malformed |-> FALSE, mode |-> "bogus", origin |-> EmptyStr]}

Query(text, speaker, emotion, speed, pitch) ==
    [text |-> text, speaker |-> speaker, emotion |-> emotion, speed |-> speed, pitch |-> pitch]

\* query strings of /audio_query
SomeParams ==
    {Query("hello", "1", "rainy", EmptyStr, EmptyStr),
     Query("", "1", "happy", Itoa(100), EmptyStr),
     Query("hello", "1", "happy", Itoa(300), Itoa(0))}

\* bodies of /synthesis
SomeBodies ==
    {[malformed |-> TRUE, query |-> NoQuery],
     [malformed |-> FALSE, query |-> Query("hi", "1", "happy", <<100>>, <<>>)],
     [malformed |-> FALSE, query |-> Query("hi", "1", "", <<300>>, <<>>)]}

-----------------------------------------------------------------------------
(* The server *)

Init ==
    /\ \E boot \in BootSettings :
         /\ corsPolicyMode = boot.mode
         /\ allowedOrigin = boot.origin
    /\ files = {}
    /\ workers = [w \in Workers |-> IdleWorker]
    /\ last = NoLast

Next ==
    \E w \in Workers :
        \/ enableCORS(w, WrappedPaths, Origins)
        \/ corsEqual(w)
        \/ corsContains(w)
        \/ preflight(w, Methods)
        \/ audioQuery(w, Methods, SomeParams)
        \/ synthesis(w, Methods, SomeBodies)
        \/ GenerateSpeech(w)
        \/ ServeFile(w)
        \/ handlerReturn(w)
        \/ setting(w, Methods)
        \/ settingRender(w)
        \/ updateSettings(w, Methods, SettingsBodies)
        \/ updateOrigin(w)

Spec == Init /\ [][Next]_vars


-----------------------------------------------------------------------------
(* The settings alone: requests that read or write corsPolicyMode and        *)
(* allowedOrigin, every update carrying one of the two modes the settings    *)
(* page offers.                                                              *)

RaceSettingsBodies ==
    {b \in SettingsBodies : ~b.malformed /\ b.mode \in {"all", "localapps"}}

NextRace ==
    \E w \in Workers :
        \/ enableCORS(w, {"/audio_query"}, {OriginEvil, OriginGood})
        \/ corsEqual(w)
        \/ corsContains(w)
        \/ audioQuery(w, {"POST"}, {Query("hello", "1", "happy", EmptyStr, EmptyStr)})
        \/ setting(w, {"GET"})
        \/ settingRender(w)
        \/ updateSettings(w, {"POST"}, RaceSettingsBodies)
        \/ updateOrigin(w)

SpecRace == Init /\ [][NextRace]_vars

-----------------------------------------------------------------------------
(* The CORS decision on its own: the server started with any of a range of   *)
(* flag values, serving requests on the two wrapped paths; no settings       *)
(* update runs, so allowedOrigin and corsPolicyMode keep their boot values.  *)

CorsOrigins ==
    {EmptyStr, OriginApp, OriginNearApp, OriginLocalhost, OriginEvil, OriginGood,
     OriginOther, OriginList}

CorsBootSettings ==
    [malformed : {FALSE}, mode : {"localapps", "all"},
     origin : {EmptyStr, OriginGood, OriginList, OriginGap}]

InitCors ==
    /\ \E boot \in CorsBootSettings :
         /\ corsPolicyMode = boot.mode
         /\ allowedOrigin = boot.origin
    /\ files = {}
    /\ workers = [w \in Workers |-> IdleWorker]
    /\ last = NoLast

NextCors ==
    \E w \in Workers :
        \/ enableCORS(w, WrappedPaths, CorsOrigins)
        \/ corsEqual(w)
        \/ corsContains(w)
        \/ preflight(w, Methods)
        \/ audioQuery(w, Methods, {Query("hello", "1", "happy", EmptyStr, EmptyStr)})
        \/ synthesis(w, Methods, {[malformed |-> TRUE, query |-> NoQuery]})

SpecCors == InitCors /\ [][NextCors]_vars

-----------------------------------------------------------------------------
(* Validation on its own: one request at a time to /audio_query or           *)
(* /synthesis, its speed and pitch drawn from the integers around the ends   *)
(* of both ranges and around zero.                                           *)

Around(n) == (n - Margin)..(n + Margin)

ProbeInts ==
    Around(speedMin) \cup Around(speedMax) \cup Around(pitchMin) \cup Around(pitchMax)
    \cup Around(0)

\* raw values of the speed and pitch query parameters: missing, or a decimal
\* string
RawInts == {EmptyStr} \cup {Itoa(n) : n \in ProbeInts}

\* decoded speed and pitch of a body: nil, or an int
OptInts == {<<>>} \cup {<<n>> : n \in ProbeInts}

ValidateParams ==
    [text : {"hello"}, speaker : {"1"}, emotion : {"happy"}, speed : RawInts, pitch : RawInts]
    \cup {Query("", "1", "happy", Itoa(speedMax + 1), EmptyStr)}

ValidateBodies ==
    [malformed : {FALSE},
     query : [text : {"hi"}, speaker : {"1"}, emotion : {"happy"},
              speed : OptInts, pitch : OptInts]]
    \cup {[malformed |-> TRUE, query |-> NoQuery]}

InitValidate ==
    /\ corsPolicyMode = "localapps"
    /\ allowedOrigin = EmptyStr
    /\ files = {}
    /\ workers = [w \in Workers |-> IdleWorker]
    /\ last = NoLast

NextValidate ==
    \/ enableCORS(1, WrappedPaths, {OriginApp})
    \/ audioQuery(1, {"POST"}, ValidateParams)
    \/ synthesis(1, {"POST"}, ValidateBodies)
    \/ GenerateSpeech(1)
    \/ ServeFile(1)
    \/ handlerReturn(1)

SpecValidate == InitValidate /\ [][NextValidate]_vars

-----------------------------------------------------------------------------
(* Normalization on its own: one request to /audio_query or /synthesis, with *)
(* any method, its text and speaker given or not, its emotion inside or       *)
(* outside the whitelist, its speed and pitch absent, well-formed or not.     *)

NormalizeMethods == {"GET", "POST", "PUT", "DELETE", "OPTIONS"}

Texts == {"", "hello"}

Speakers == {"", "1"}

Emotions == {"happy", "fun", "angry", "sad", "", "rainy", "Happy", "sadness"}

\* raw strings that are no integer
NotIntegerRaws ==
    {<<"a", "b", "c">>, <<"1", ".", "5">>, <<" ", "6", "0">>, <<"-">>, <<"6", "0", "x">>}

\* integers written with a sign or a leading zero
SignedRaws == {<<"+", "6", "0">>, <<"0", "6", "0">>, <<"-", "0">>}

ParseRaws == RawInts \cup NotIntegerRaws \cup SignedRaws

NormalizeParams ==
    [text : Texts, speaker : Speakers, emotion : Emotions,
     speed : {EmptyStr, Itoa(speedMax), Itoa(speedMax + 1), <<"a", "b", "c">>},
     pitch : {EmptyStr, Itoa(pitchMin), <<"1", ".", "5">>}]
    \cup [text : {"hello"}, speaker : {"1"}, emotion : {"happy"},
          speed : ParseRaws, pitch : ParseRaws]

NormalizeBodies ==
    [malformed : {FALSE},
     query : [text : Texts, speaker : Speakers, emotion : Emotions,
              speed : {<<>>, <<speedMax>>, <<speedMax + 1>>},
              pitch : {<<>>, <<pitchMin>>, <<pitchMax + 1>>}]]
    \cup ValidateBodies

NextNormalize ==
    \/ enableCORS(1, WrappedPaths, {OriginApp})
    \/ preflight(1, NormalizeMethods)
    \/ audioQuery(1, NormalizeMethods, NormalizeParams)
    \/ synthesis(1, NormalizeMethods, NormalizeBodies)
    \/ GenerateSpeech(1)
    \/ ServeFile(1)
    \/ handlerReturn(1)

SpecNormalize == InitValidate /\ [][NextNormalize]_vars


-----------------------------------------------------------------------------
(* Synthesis on its own: requests to /synthesis in flight together, each      *)
(* drawing its artifact name, calling the capability, serving and removing   *)
(* its file; the settings keep their default values.                         *)

NextSynthesis ==
    \E w \in Workers :
        \/ enableCORS(w, {"/synthesis"}, {OriginApp})
        \/ synthesis(w, {"GET", "POST"}, SomeBodies)
        \/ GenerateSpeech(w)
        \/ ServeFile(w)
        \/ handlerReturn(w)

SpecSynthesis == InitValidate /\ [][NextSynthesis]_vars

-----------------------------------------------------------------------------
(* Every handler of the server, the one of "/" included, on few inputs each: *)
(* what a request may change.                                                *)

FrameSettingsBodies ==
    {b \in SettingsBodies : b.malformed \/ b.mode = "all"}

NextFrame ==
    \E w \in Workers :
        \/ root(w, {"/", "/favicon.ico"}, {"GET", "POST"})
        \/ enableCORS(w, WrappedPaths, {OriginEvil})
        \/ corsEqual(w)
        \/ corsContains(w)
        \/ preflight(w, {"OPTIONS"})
        \/ audioQuery(w, {"GET", "POST"}, {Query("hello", "1", "rainy", EmptyStr, EmptyStr)})
        \/ synthesis(w, {"GET", "POST"},
                     {[malformed |-> FALSE, query |-> Query("hi", "1", "happy", <<>>, <<>>)]})
        \/ GenerateSpeech(w)
        \/ ServeFile(w)
        \/ handlerReturn(w)
        \/ setting(w, {"GET", "POST"})
        \/ settingRender(w)
        \/ updateSettings(w, {"GET", "POST"}, FrameSettingsBodies)
        \/ updateOrigin(w)

SpecFrame == InitValidate /\ [][NextFrame]_vars

-----------------------------------------------------------------------------
(* A mode that is neither all nor localapps: given with the flag, which is   *)
(* taken as it comes (main.go:234), or stored by an update.                  *)

BadModeOrigins == {EmptyStr, OriginApp, OriginLocalhost, OriginEvil, OriginGood}

BadModeBootSettings ==
    [malformed : {FALSE}, mode : {"bogus", "", "All"}, origin : {OriginGood, OriginList}]
    \cup {[malformed |-> FALSE, mode |-> "localapps", origin |-> OriginList]}

InitBadMode ==
    /\ \E boot \in BadModeBootSettings :
         /\ corsPolicyMode = boot.mode
         /\ allowedOrigin = boot.origin
    /\ files = {}
    /\ workers = [w \in Workers |-> IdleWorker]
    /\ last = NoLast

NextBadMode ==
    \E w \in Workers :
        \/ enableCORS(w, WrappedPaths, BadModeOrigins)
        \/ corsEqual(w)
        \/ corsContains(w)
        \/ preflight(w, Methods)
        \/ audioQuery(w, {"POST"}, {Query("hello", "1", "happy", EmptyStr, EmptyStr)})
        \/ synthesis(w, {"POST"}, {[malformed |-> TRUE, query |-> NoQuery]})
        \/ updateSettings(w, {"POST"},
                          {[malformed |-> FALSE, mode |-> "bogus", origin |-> OriginGood]})
        \/ updateOrigin(w)

SpecBadMode == InitBadMode /\ [][NextBadMode]_vars

-----------------------------------------------------------------------------
(* Properties *)

Range(seq) == {seq[i] : i \in 1..Len(seq)}

\* the request that has just returned was served by enableCORS(handler)
Wrapped == last.req.path \in WrappedPaths

\* a (mode, origin) pair that was handed to the server as one pair: by the flags
\* at start, or by the body of one POST /update-settings
WholePairs ==
    {<<b.mode, b.origin>> : b \in {x \in BootSettings \cup SettingsBodies : ~x.malformed}}

\* o is one of the pieces of list between single spaces (or its ends)
IsToken(list, o) ==
    /\ \A k \in 1..Len(o) : o[k] # " "
    /\ \E i \in 1..(Len(list) + 1) :
         LET j == i + Len(o) - 1
         IN  /\ j <= Len(list)
             /\ SubSeq(list, i, j) = o
             /\ (i = 1 \/ list[i - 1] = " ")
             /\ (j = Len(list) \/ list[j + 1] = " ")

\* the rule of localapps mode, section 4.2
LocalappsAllows(o, allowed) ==
    \/ HasPrefix(o, appPrefix)
    \/ HasPrefix(o, localhostPrefix)
    \/ o = allowed
    \/ IsToken(allowed, o)

\* the Access-Control-Allow-Origin header the policy prescribes
ExpectedAcao(mode, allowed, o) ==
    IF mode = "all" THEN <<Star>>
    ELSE IF mode = "localapps" /\ LocalappsAllows(o, allowed) THEN <<o>>
    ELSE <<>>

\* C1: once the handler of a POST /synthesis that drew an artifact name has
\* returned, no file of that name exists, whichever way the handler left.
\* (Fails: a failed GenerateSpeech returns before the defer is registered.)
C1_NoResidualArtifact ==
    (last.req.path = "/synthesis" /\ last.req.name # <<>>)
        => last.req.name[1] \notin files

\* C2: every (mode, origin) combination a CORS decision or a GET /setting uses
\* is a pair that was stored as a whole, never one field of one pair and the
\* other field of another.  (Fails: the two variables are read and written one
\* by one, without synchronisation.)
C2_NoTornRead ==
    (last.req.modeRead # <<>> /\ last.req.aoRead # <<>>)
        => \A i \in 1..Len(last.req.aoRead) :
               <<last.req.modeRead[1], last.req.aoRead[i]>> \in WholePairs

\* C3: whenever no POST /update-settings is in flight, the stored pair is the
\* pair of the flags or the pair submitted by one single request.  (Fails: two
\* updates interleave their assignments.)
C3_UpdateIsOneUnit ==
    (\A w \in Workers : workers[w].pc # "update_origin")
        => <<corsPolicyMode, allowedOrigin>> \in WholePairs

\* a decoded POST /update-settings whose mode is none of all, localapps
InvalidModeUpdate(rec) ==
    /\ rec.path = "/update-settings"
    /\ rec.method = "POST"
    /\ ~rec.input.settings.malformed
    /\ rec.input.settings.mode \notin {"all", "localapps"}

\* C4: a POST /update-settings with a mode outside {all, localapps} is answered
\* with an error, and no step of it changes corsPolicyMode or allowedOrigin.
\* (Fails: the handler stores any mode and answers 200.)
C4_InvalidModeRejected ==
    [][\A w \in Workers :
          (/\ workers'[w] # workers[w]
           /\ \/ InvalidModeUpdate(workers'[w])
              \/ workers'[w].pc = "done" /\ InvalidModeUpdate(last'.req))
          => /\ UNCHANGED <<corsPolicyMode, allowedOrigin>>
             /\ workers'[w].pc = "done" => last'.resp.status # StatusOK]_vars

\* C5: in mode localapps the response carries Access-Control-Allow-Origin equal
\* to the Origin if the Origin starts with app://, starts with http://localhost,
\* equals allowedOrigin or is one of its space-separated pieces, and no such
\* header otherwise; a request that is not OPTIONS reaches the inner handler
\* either way.  app://x is echoed; http://evil.example is not when
\* allowedOrigin is http://good.example.
C5_LocalappsDecision ==
    (Wrapped /\ last.req.modeRead = <<"localapps">>)
        => /\ last.headers.acao =
                  IF LocalappsAllows(last.req.origin, allowedOrigin)
                  THEN <<last.req.origin>> ELSE <<>>
           /\ last.req.origin = OriginApp => last.headers.acao = <<OriginApp>>
           /\ (last.req.origin = OriginEvil /\ allowedOrigin = OriginGood)
                  => last.headers.acao = <<>>
           /\ last.req.method # "OPTIONS" => last.reached

\* an origin that is only a piece of the list is echoed
C5_Witness ==
    /\ Wrapped /\ last.req.modeRead = <<"localapps">>
    /\ allowedOrigin = OriginList /\ last.req.origin = OriginOther
    /\ last.headers.acao = <<OriginOther>>
    /\ last.reached

\* C6: a request that found corsPolicyMode = all is answered with
\* Access-Control-Allow-Origin: *, whatever its Origin and whatever allowedOrigin
C6_AllGivesStar ==
    (Wrapped /\ last.req.modeRead = <<"all">>) => last.headers.acao = <<Star>>

C6_Witness ==
    /\ Wrapped /\ last.req.modeRead = <<"all">>
    /\ last.req.origin = OriginEvil /\ allowedOrigin = OriginList
    /\ last.headers.acao = <<Star>>

\* C7: an OPTIONS request to /audio_query or /synthesis is answered 200 without
\* a body and without the inner handler being called: nothing of the request
\* is validated, no artifact name is drawn, the capability is not called, and
\* the step changes neither the settings nor the files
C7_OptionsShortCircuit ==
    [][(last'.req.path \in WrappedPaths /\ last'.req.method = "OPTIONS")
          => /\ last'.resp.status = StatusOK
             /\ last'.resp.body.kind = "none"
             /\ ~last'.reached
             /\ last'.req.input = NoInput
             /\ last'.req.name = <<>>
             /\ last'.req.calls = <<>>
             /\ UNCHANGED <<corsPolicyMode, allowedOrigin, files>>]_vars

C7_Witness ==
    /\ last.req.path = "/synthesis" /\ last.req.method = "OPTIONS"
    /\ last.resp.status = StatusOK
    /\ ~last.reached


\* a header value that is a comma-separated list, as the list of its items
RECURSIVE TrimSpaces(_)
TrimSpaces(v) ==
    IF Len(v) > 0 /\ v[1] = " " THEN TrimSpaces(Tail(v))
    ELSE IF Len(v) > 0 /\ v[Len(v)] = " " THEN TrimSpaces(SubSeq(v, 1, Len(v) - 1))
    ELSE v

ListItems(v) == [i \in 1..Len(Split(v, ",")) |-> TrimSpaces(Split(v, ",")[i])]

GetPostOptions == << <<"G", "E", "T">>, <<"P", "O", "S", "T">>,
                     <<"O", "P", "T", "I", "O", "N", "S">> >>

ContentType == <<"C", "o", "n", "t", "e", "n", "t", "-", "T", "y", "p", "e">>

\* every value allowedOrigin can take in Spec
AllowedOriginValues == {b.origin : b \in BootSettings \cup SettingsBodies}

\* the Allow-Origin header of the response is the policy's decision for the
\* mode the request read and an allowedOrigin value it read (for any value, when
\* the decision needed none)
AcaoDecided ==
    IF last.req.modeRead = <<>>
    THEN last.headers.acao = ExpectedAcao(corsPolicyMode, allowedOrigin, last.req.origin)
    ELSE IF last.req.aoRead = <<>>
    THEN \A a \in AllowedOriginValues :
             last.headers.acao = ExpectedAcao(last.req.modeRead[1], a, last.req.origin)
    ELSE \E a \in Range(last.req.aoRead) :
             last.headers.acao = ExpectedAcao(last.req.modeRead[1], a, last.req.origin)

CarriesCors ==
    /\ last.headers.acam # <<>> /\ ListItems(last.headers.acam[1]) = GetPostOptions
    /\ last.headers.acah = <<ContentType>>
    /\ Wrapped => AcaoDecided

SpeedRangeMessage == [kind |-> "value must be between", lo |-> 50, hi |-> 200]

\* C9: for every integer speed, written as a decimal string in the query of
\* POST /audio_query (text and speaker given) or as a number in a decodable
\* body of POST /synthesis: below 50 or above 200 the answer is 400 with the
\* message "value must be between 50 and 200"; from 50 to 200 inclusive the
\* speed is not rejected, and the same integer is in the /audio_query result
\* and in the options handed to the synthesis capability.
C9_SpeedRange ==
    /\ (/\ last.req.path = "/audio_query" /\ last.req.method = "POST"
        /\ last.req.input.params.text # "" /\ last.req.input.params.speaker # "")
           => \A n \in ProbeInts :
                 last.req.input.params.speed = Itoa(n)
                    => IF n < 50 \/ n > 200
                       THEN /\ last.resp.status = 400
                            /\ last.resp.body.what = "Invalid speed parameter"
                            /\ last.resp.body.err = SpeedRangeMessage
                       ELSE /\ last.resp.body.what # "Invalid speed parameter"
                            /\ last.resp.status = 200
                                  => /\ "speed" \in DOMAIN last.resp.body.json
                                     /\ last.resp.body.json["speed"] = n
    /\ (/\ last.req.path = "/synthesis" /\ last.req.method = "POST"
        /\ ~last.req.input.body.malformed)
           => \A n \in ProbeInts :
                 last.req.input.body.query.speed = <<n>>
                    => IF n < 50 \/ n > 200
                       THEN /\ last.resp.status = 400
                            /\ last.resp.body.what = "Invalid speed"
                            /\ last.resp.body.err = SpeedRangeMessage
                            /\ last.req.calls = <<>>
                       ELSE /\ last.resp.body.what # "Invalid speed"
                            /\ last.resp.status # 400
                                  => /\ Len(last.req.calls) = 1
                                     /\ last.req.calls[1].Speed = <<n>>

\* speed 200, the upper end, reaches the capability as 200 and the audio is served
C9_Witness ==
    /\ last.req.path = "/synthesis"
    /\ last.req.input.body.query.speed = <<200>>
    /\ last.resp.status = 200
    /\ Len(last.req.calls) = 1 /\ last.req.calls[1].Speed = <<200>>

\* C10: for every integer pitch, in the query of POST /audio_query or in a
\* decodable body of POST /synthesis: below -300 or above 300 the answer is
\* 400; from -300 to 300 inclusive, negative values included, the pitch is not
\* rejected and the same integer is passed on.
C10_PitchRange ==
    /\ (last.req.path = "/audio_query" /\ last.req.method = "POST")
           => \A n \in ProbeInts :
                 last.req.input.params.pitch = Itoa(n)
                    => IF n < -300 \/ n > 300
                       THEN last.resp.status = 400
                       ELSE /\ last.resp.body.what # "Invalid pitch parameter"
                            /\ last.resp.status = 200
                                  => /\ "pitch" \in DOMAIN last.resp.body.json
                                     /\ last.resp.body.json["pitch"] = n
    /\ (/\ last.req.path = "/synthesis" /\ last.req.method = "POST"
        /\ ~last.req.input.body.malformed)
           => \A n \in ProbeInts :
                 last.req.input.body.query.pitch = <<n>>
                    => IF n < -300 \/ n > 300
                       THEN last.resp.status = 400 /\ last.req.calls = <<>>
                       ELSE /\ last.resp.body.what # "Invalid pitch"
                            /\ last.resp.status # 400
                                  => /\ Len(last.req.calls) = 1
                                     /\ last.req.calls[1].Pitch = <<n>>

\* pitch -300, the lower end, written "-300", comes back as -300
C10_Witness ==
    /\ last.req.path = "/audio_query"
    /\ last.req.input.params.pitch = <<"-", "3", "0", "0">>
    /\ last.resp.status = 200
    /\ last.resp.body.json["pitch"] = -300

-----------------------------------------------------------------------------
(* Normalization, sections 4.3 and 4.4 *)

Whitelist == {"happy", "fun", "angry", "sad"}

\* a raw query parameter that is missing, or the decimal string of an integer
\* from lo to hi
RawWithin(raw, lo, hi) == raw = EmptyStr \/ \E n \in lo..hi : raw = Itoa(n)

\* a decoded *int that is nil, or an integer from lo to hi
OptWithin(opt, lo, hi) == opt = <<>> \/ opt[1] \in lo..hi

\* the emotion the rule of section 4.3 prescribes
ExpectedEmotion(e) == IF e \in Whitelist THEN e ELSE ""

\* the request that has just returned was a POST to /audio_query
PostedAudioQuery == last.req.path = "/audio_query" /\ last.req.method = "POST"

\* the request that has just returned was a POST to /synthesis whose body decoded
PostedSynthesis ==
    /\ last.req.path = "/synthesis" /\ last.req.method = "POST"
    /\ ~last.req.input.body.malformed

\* C11: on /audio_query and on /synthesis an emotion that is one of happy, fun,
\* angry, sad is passed on verbatim and any other is passed on as the empty
\* string; when the rest of the request is valid, an emotion outside the
\* whitelist does not make the answer an error.
C11_EmotionNormalized ==
    /\ PostedAudioQuery
           => LET p == last.req.input.params
              IN  /\ last.resp.status = 200
                        => last.resp.body.json["emotion"] = ExpectedEmotion(p.emotion)
                  /\ (/\ p.text # "" /\ p.speaker # ""
                      /\ RawWithin(p.speed, 50, 200) /\ RawWithin(p.pitch, -300, 300))
                        => last.resp.status = 200
    /\ PostedSynthesis
           => LET q == last.req.input.body.query
              IN  /\ \A i \in 1..Len(last.req.calls) :
                        last.req.calls[i].Emotion = ExpectedEmotion(q.emotion)
                  /\ (OptWithin(q.speed, 50, 200) /\ OptWithin(q.pitch, -300, 300))
                        => Len(last.req.calls) = 1 /\ last.resp.status # 400

\* "Happy" is not "happy": it reaches the capability as the empty emotion
C11_Witness ==
    /\ PostedSynthesis
    /\ last.req.input.body.query.emotion = "Happy"
    /\ Len(last.req.calls) = 1 /\ last.req.calls[1].Emotion = ""
    /\ last.resp.status = 200

MissingParameter ==
    [status |-> 400, ctype |-> "text/plain",
     body |-> [NoBodyOut EXCEPT !.kind = "text",
                                !.what = "Missing required parameters: text and speaker"]]

\* C12: a POST /audio_query whose text is missing or empty, or whose speaker is,
\* is answered 400 "Missing required parameters", whatever its emotion, speed
\* and pitch; one with both given is never answered so.
C12_MissingParameter ==
    PostedAudioQuery
        => LET p == last.req.input.params
           IN  (p.text = "" \/ p.speaker = "") <=> (last.resp = MissingParameter)

\* the speaker alone is missing, and the speed is no integer: the answer is
\* the missing-parameter one, not the speed's
C12_Witness ==
    /\ PostedAudioQuery
    /\ last.req.input.params.text = "hello" /\ last.req.input.params.speaker = ""
    /\ last.req.input.params.speed = <<"a", "b", "c">>
    /\ last.resp = MissingParameter

\* the integers the raw strings drawn spell, each with its spelling
SpelledInts ==
    {[raw |-> Itoa(n), n |-> n] : n \in ProbeInts}
    \cup {[raw |-> <<"+", "6", "0">>, n |-> 60], [raw |-> <<"0", "6", "0">>, n |-> 60],
          [raw |-> <<"-", "0">>, n |-> 0]}

\* what the answer of a POST /audio_query (text and speaker given) says about
\* one raw parameter: field is its name in the result, what the heading of its
\* error, lo and hi its bounds; earlier tells that an earlier check has already
\* refused the request
RawParamHandled(raw, field, what, lo, hi, earlier) ==
    /\ raw = EmptyStr
          => /\ last.resp.body.what # what
             /\ last.resp.status = 200 => field \notin DOMAIN last.resp.body.json
    /\ raw \in NotIntegerRaws
          => /\ last.resp.status = 400
             /\ ~earlier => /\ last.resp.body.what = what
                            /\ last.resp.body.err.kind = "failed to convert to integer"
    /\ \A s \in SpelledInts :
          raw = s.raw
             => IF s.n < lo \/ s.n > hi
                THEN /\ last.resp.status = 400
                     /\ ~earlier => /\ last.resp.body.what = what
                                    /\ last.resp.body.err.kind = "value must be between"
                ELSE /\ last.resp.body.what # what
                     /\ last.resp.status = 200
                           => /\ field \in DOMAIN last.resp.body.json
                              /\ last.resp.body.json[field] = s.n

\* C13: for the raw speed and pitch of POST /audio_query (text and speaker
\* given): a missing or empty string gives no value and no error; a string
\* that is no integer gives a 400; an integer outside the bounds gives a 400;
\* an integer inside the bounds gives that integer in the result.
C13_RawParams ==
    (/\ PostedAudioQuery
     /\ last.req.input.params.text # "" /\ last.req.input.params.speaker # "")
        => LET p == last.req.input.params
           IN  /\ RawParamHandled(p.speed, "speed", "Invalid speed parameter", 50, 200, FALSE)
               /\ RawParamHandled(p.pitch, "pitch", "Invalid pitch parameter", -300, 300,
                                  last.resp.body.what = "Invalid speed parameter")

\* speed missing and pitch "1.5": the speed passes without a value, the pitch
\* is refused as no integer
C13_Witness ==
    /\ PostedAudioQuery
    /\ last.req.input.params.text = "hello" /\ last.req.input.params.speaker = "1"
    /\ last.req.input.params.speed = EmptyStr
    /\ last.req.input.params.pitch = <<"1", ".", "5">>
    /\ last.resp.status = 400
    /\ last.resp.body.what = "Invalid pitch parameter"
    /\ last.resp.body.err.kind = "failed to convert to integer"

\* the fields of an AudioQuery whose value is neither empty nor absent
NonEmptyFields(q) ==
    {f \in {"text", "speaker", "emotion"} : q[f] # ""}
    \cup {f \in {"speed", "pitch"} : q[f] # EmptyStr}

\* C14: the 200 JSON result of POST /audio_query has exactly the fields whose
\* value is not empty: no emotion field when the emotion was normalized to
\* empty, no speed or pitch field when that parameter is absent; text=hello,
\* speaker=1, emotion=rainy gives exactly text and speaker.  (Fails: the
\* emotion field is written even when it is empty.)
C14_EmptyFieldsOmitted ==
    (PostedAudioQuery /\ last.resp.status = 200)
        => LET p == last.req.input.params
           IN  /\ DOMAIN last.resp.body.json =
                     NonEmptyFields([p EXCEPT !.emotion = ExpectedEmotion(p.emotion)])
               /\ p = Query("hello", "1", "rainy", EmptyStr, EmptyStr)
                     => DOMAIN last.resp.body.json = {"text", "speaker"}

\* the capability is called once at most, and a request whose call has failed
\* is answered in the very step in which the call returns: no worker goes on
\* after an error
CalledOnce ==
    /\ \A w \in Workers :
          /\ Len(workers[w].calls) <= 1
          /\ \A i \in 1..Len(workers[w].returned) : workers[w].returned[i] = "nil"
    /\ Len(last.req.calls) <= 1
    /\ Len(last.req.returned) = Len(last.req.calls)

\* the answer to a request whose only call of the capability has failed
FailureReported ==
    /\ last.resp.status = 500
    /\ last.resp.body.what = "Failed to generate speech"
    /\ last.resp.body.audio = <<>>
    /\ last.resp.ctype # "audio/wav"

AudioServed ==
    /\ last.resp.status = 200
    /\ last.resp.ctype = "audio/wav"
    /\ last.resp.body.audio = last.req.name

\* C15 as claimed: within one /synthesis request the capability is called once
\* at most; if the call fails the answer is 500 at once, with no second call
\* and no audio; if it succeeds the answer is 200 audio/wav.  (Fails: after a
\* successful call the file may still not be readable, and the answer is then
\* the error of http.ServeFile.)
C15_NoRetryThenAudio ==
    /\ CalledOnce
    /\ (last.req.path = "/synthesis" /\ last.req.calls # <<>>)
          => IF last.req.returned[1] = "error" THEN FailureReported ELSE AudioServed

\* C15 as amended: once at most, a failure answered 500 at once; after a
\* successful call the file is served once, which gives 200 audio/wav when the
\* file can be read and the error status of http.ServeFile when it cannot; in
\* neither case is the capability called again.
C15_NoRetry ==
    /\ CalledOnce
    /\ (last.req.path = "/synthesis" /\ last.req.calls # <<>>)
          => IF last.req.returned[1] = "error" THEN FailureReported
             ELSE \/ AudioServed
                  \/ /\ last.resp.status \in {404, 500}
                     /\ last.resp.body.what = "ServeFile"
                     /\ last.resp.body.audio = <<>>

\* one call, which failed, and the 500 that reports it
C15_Witness ==
    /\ last.req.path = "/synthesis"
    /\ Len(last.req.calls) = 1 /\ last.req.returned = <<"error">>
    /\ FailureReported

\* C16: a request to /audio_query or /synthesis whose method is neither POST
\* nor OPTIONS is answered 405 "Only POST method is allowed" whatever its
\* parameters or body, valid or not; it draws no artifact name, never calls
\* the capability, and leaves the files as they are; only a POST ever gets
\* past the method check.
C16_MethodCheckedFirst ==
    [][/\ (last'.req.path \in WrappedPaths /\ last'.req.method \notin {"POST", "OPTIONS"})
          => /\ last'.resp.status = 405
             /\ last'.resp.body.what = "Only POST method is allowed"
             /\ last'.resp.body.err.kind = "nil"
             /\ last'.req.query = NoQuery
             /\ last'.req.name = <<>>
             /\ last'.req.calls = <<>>
             /\ UNCHANGED files
       /\ \A w \in Workers :
             workers'[w].pc \in {"generate", "serve", "return"}
                => workers'[w].method = "POST"]_vars

\* a DELETE with an undecodable body is answered 405, not 400
C16_Witness ==
    /\ last.req.path = "/synthesis" /\ last.req.method = "DELETE"
    /\ last.req.input.body.malformed
    /\ last.resp.status = 405
    /\ last.req.calls = <<>>

\* C17: a POST /update-settings whose body cannot be decoded is answered with
\* an error status and changes neither corsPolicyMode nor allowedOrigin; one
\* with a decodable body and a mode of all or localapps is answered 200
\* {"status":"success"}, and the stored pair is then exactly the submitted
\* one.  (Fails: the two assignments are separate steps, and another update
\* may store its mode between them.)
C17_UpdateStoresSubmitted ==
    [][(last'.req.path = "/update-settings" /\ last'.req.method = "POST")
          => LET b == last'.req.input.settings
             IN  /\ b.malformed
                       => /\ last'.resp.status >= 400
                          /\ UNCHANGED <<corsPolicyMode, allowedOrigin>>
                 /\ (~b.malformed /\ b.mode \in {"all", "localapps"})
                       => /\ last'.resp.status = 200
                          /\ last'.resp.body.kind = "success"
                          /\ corsPolicyMode' = b.mode
                          /\ allowedOrigin' = b.origin]_vars

\* the requests to /synthesis that hold an artifact name
Holding(ws) == {w \in Workers : ws[w].name # <<>>}

\* C18: no two /synthesis requests in flight hold the same artifact name; the
\* file a returning request removes is its own and is the artifact of no
\* request still in flight, and the audio a request serves is the file of the
\* name it drew and handed to the capability.
C18_NamesDoNotCollide ==
    [][/\ \A w, v \in Holding(workers') :
             w # v => workers'[w].name # workers'[v].name
       /\ \A f \in files \ files' :
             /\ last'.req.name = <<f>>
             /\ \A v \in Holding(workers') : workers'[v].name # <<f>>
       /\ last'.resp.body.audio # <<>>
             => /\ last'.resp.body.audio = last'.req.name
                /\ last'.req.calls[1].Output = last'.req.name[1]]_vars

\* two requests in flight at once, each with its file written, and the first
\* one returns and removes its file while the second one is about to serve
C18_Witness ==
    /\ last.req.path = "/synthesis" /\ last.resp.status = 200
    /\ last.req.name # <<>>
    /\ \E v \in Workers :
          /\ workers[v].pc = "serve"
          /\ workers[v].name # last.req.name
          /\ files = {workers[v].name[1]}

\* speed or pitch of a body as a client writes it into a query string
AsRaw(opt) == IF opt = <<>> THEN EmptyStr ELSE Itoa(opt[1])

\* raw speed or pitch that is missing or the decimal string of a probed
\* integer, and the value of a body that says the same
AbsentOrInteger(raw) == raw = EmptyStr \/ \E n \in ProbeInts : raw = Itoa(n)

AsOpt(raw) ==
    IF raw = EmptyStr THEN <<>> ELSE <<CHOOSE n \in ProbeInts : raw = Itoa(n)>>

\* the AudioQuery a JSON result of /audio_query decodes to
Decoded(json) ==
    [text |-> json["text"], speaker |-> json["speaker"], emotion |-> json["emotion"],
     speed |-> IF "speed" \in DOMAIN json THEN <<json["speed"]>> ELSE <<>>,
     pitch |-> IF "pitch" \in DOMAIN json THEN <<json["pitch"]>> ELSE <<>>]

\* the canonical (text, speaker, emotion, speed, pitch) a call of the capability
\* carries
Carried(call) ==
    [text |-> call.text, speaker |-> call.Narrator, emotion |-> call.Emotion,
     speed |-> call.Speed, pitch |-> call.Pitch]

\* C19: for non-empty text and speaker, any emotion, and speed and pitch absent
\* or integers, /audio_query (values as decimal strings) and /synthesis (values
\* in the decoded body) agree: one answers 400 exactly when the other does, and
\* when they accept, the AudioQuery of the /audio_query result is the one
\* /synthesis hands to the capability; and every AudioQuery /audio_query
\* returns passes the validation of /synthesis unchanged.
C19_EntryPointsAgree ==
    /\ (/\ PostedAudioQuery
        /\ last.req.input.params.text # "" /\ last.req.input.params.speaker # ""
        /\ AbsentOrInteger(last.req.input.params.speed)
        /\ AbsentOrInteger(last.req.input.params.pitch))
          => LET p == last.req.input.params
                 body == [malformed |-> FALSE,
                          query |-> [p EXCEPT !.speed = AsOpt(p.speed),
                                              !.pitch = AsOpt(p.pitch)]]
                 other == synthesisValidate("POST", body)
             IN  /\ last.resp.status \in {200, 400}
                 /\ last.resp.status = 400 <=> ~other.ok
                 /\ ~other.ok => other.resp.status = 400
                 /\ last.resp.status = 200
                       => /\ Decoded(last.resp.body.json) = other.query
                          /\ synthesisValidate("POST",
                                 [malformed |-> FALSE,
                                  query |-> Decoded(last.resp.body.json)])
                               = [ok |-> TRUE, resp |-> NoResp,
                                  query |-> Decoded(last.resp.body.json)]
    /\ (/\ PostedSynthesis
        /\ last.req.input.body.query.text # ""
        /\ last.req.input.body.query.speaker # "")
          => LET q == last.req.input.body.query
                 other == audioQueryBody([q EXCEPT !.speed = AsRaw(q.speed),
                                                   !.pitch = AsRaw(q.pitch)])
             IN  /\ other.status \in {200, 400}
                 /\ last.resp.status = 400 <=> other.status = 400
                 /\ last.resp.status # 400
                       => /\ Len(last.req.calls) = 1
                          /\ Carried(last.req.calls[1]) = Decoded(other.body.json)

\* pitch -300 and an emotion outside the whitelist: accepted on /synthesis as
\* on /audio_query, with the emotion emptied
C19_Witness ==
    /\ PostedSynthesis
    /\ last.req.input.body.query = Query("hello", "1", "rainy", <<>>, <<-300>>)
    /\ Len(last.req.calls) = 1
    /\ Carried(last.req.calls[1]) = Query("hello", "1", "", <<>>, <<-300>>)

\* the AudioQuery invariant of section 3, on what a call of the capability carries
AudioQueryInvariant(call) ==
    /\ call.text # ""
    /\ call.Narrator # ""
    /\ call.Emotion \in Whitelist \cup {""}
    /\ OptWithin(call.Speed, 50, 200)
    /\ OptWithin(call.Pitch, -300, 300)

\* C20: every call of the capability carries an AudioQuery with non-empty
\* text, non-empty speaker, an emotion of the whitelist or empty, a speed
\* absent or from 50 to 200 and a pitch absent or from -300 to 300; a
\* /synthesis body with empty or missing text or speaker makes no call.
\* (Fails: /synthesis checks neither text nor speaker.)
C20_CapabilityGetsValidQuery ==
    /\ \A w \in Workers : \A i \in 1..Len(workers[w].calls) :
          AudioQueryInvariant(workers[w].calls[i])
    /\ \A i \in 1..Len(last.req.calls) : AudioQueryInvariant(last.req.calls[i])
    /\ (/\ PostedSynthesis
        /\ \/ last.req.input.body.query.text = ""
           \/ last.req.input.body.query.speaker = "")
          => last.req.calls = <<>>

-----------------------------------------------------------------------------
(* The request state machine, section 4.4 *)

\* the step just taken was taken by the request of worker w
Stepped(w) == workers'[w] # workers[w]

\* C21: a /synthesis request moves only along Received -> Validated ->
\* Synthesizing -> (Succeeded -> Serving -> Cleaned | Failed -> Cleaned): it
\* draws its artifact name only once validation has passed, and its next step
\* is the call of the capability; it serves audio only after the capability
\* has reported success; a file is removed only by the return of the request
\* that has finished serving it; and every request that drew a name, the one
\* whose synthesis failed included, leaves no file of that name behind and
\* serves no audio after a failure.  (Fails: after a failed call the handler
\* returns without removing the file.)
C21_RequestStateMachine ==
    [][/\ \A w \in Workers :
             Stepped(w)
                => /\ (workers[w].name = <<>> /\ workers'[w].name # <<>>)
                         => /\ workers[w].pc = "handler"
                            /\ synthesisValidate(workers'[w].method,
                                                  workers'[w].input.body).ok
                            /\ workers'[w].pc = "generate"
                            /\ workers'[w].calls = <<>>
                   /\ workers[w].pc = "generate"
                         => /\ Len(workers[w].calls) = 0
                            /\ \/ workers'[w].pc = "serve" /\ Len(workers'[w].calls) = 1
                               \/ workers'[w].pc = "done" /\ Len(last'.req.calls) = 1
                   /\ workers[w].pc = "serve"
                         => /\ workers[w].returned = <<"nil">>
                            /\ workers'[w].pc = "return"
                            /\ UNCHANGED files
                   /\ workers[w].pc = "return" => workers'[w].pc = "done"
                   /\ files' # files \cup files'
                         => /\ workers[w].pc = "return"
                            /\ files \ files' = {workers[w].name[1]}
       /\ (last'.req.path = "/synthesis" /\ last'.req.name # <<>>)
             => /\ last'.req.name[1] \notin files'
                /\ last'.req.returned = <<"error">> => last'.resp.body.audio = <<>>
                /\ last'.resp.body.audio # <<>> => last'.req.returned = <<"nil">>]_vars

\* C22: a POST /synthesis answered 400 has drawn no artifact name and has not
\* called the capability; the answer is 400 exactly when the body does not
\* decode, the speed is out of range or the pitch is out of range; a failure
\* of the capability is answered 500.
C22_ValidationErrorsAreLocal ==
    (last.req.path = "/synthesis" /\ last.req.method = "POST")
        => LET b == last.req.input.body
               invalid == \/ b.malformed
                          \/ ~OptWithin(b.query.speed, 50, 200)
                          \/ ~OptWithin(b.query.pitch, -300, 300)
           IN  /\ last.resp.status = 400 <=> invalid
               /\ last.resp.status = 400
                     => /\ last.req.name = <<>>
                        /\ last.req.calls = <<>>
                        /\ last.resp.body.what \in
                               {"Failed to decode request body", "Invalid speed",
                                "Invalid pitch"}
               /\ (last.req.returned # <<>> /\ last.req.returned[1] = "error")
                     => /\ last.resp.status = 500
                        /\ last.resp.body.what = "Failed to generate speech"

\* a pitch of 301 is refused with 400 before any name is drawn
C22_Witness ==
    /\ last.req.path = "/synthesis" /\ last.req.method = "POST"
    /\ last.req.input.body.query.speed = <<>>
    /\ last.req.input.body.query.pitch = <<301>>
    /\ last.resp.status = 400 /\ last.resp.body.what = "Invalid pitch"
    /\ last.req.name = <<>> /\ last.req.calls = <<>>

-----------------------------------------------------------------------------
(* The settings store, section 5 *)

\* the record of worker w after the step just taken: its own, or the one handed
\* over with the response when the step was its return
After(w) == IF workers'[w].pc = "done" THEN last'.req ELSE workers'[w]

\* a POST /update-settings returns success in the step just taken
UpdateReturns ==
    /\ last'.req.path = "/update-settings" /\ last'.req.method = "POST"
    /\ last'.resp.status = 200

\* C23: once a POST /update-settings has returned success for a pair and no
\* other update runs from then on, the stored pair is that pair, and it is the
\* stored pair that every CORS decision and every GET /setting reads: the mode
\* at the time it reads the mode, the origin at the time it reads the origin.
\* (Fails: an update that ran in between has left its mode behind.)
C23_AppliedImmediately ==
    [][/\ (UpdateReturns /\ \A w \in Workers : workers'[w].pc # "update_origin")
             => /\ corsPolicyMode' = last'.req.input.settings.mode
                /\ allowedOrigin' = last'.req.input.settings.origin
       /\ \A w \in Workers :
             Stepped(w)
                => /\ After(w).modeRead # workers[w].modeRead
                         => After(w).modeRead = <<corsPolicyMode>>
                   /\ After(w).aoRead # workers[w].aoRead
                         => After(w).aoRead = Append(workers[w].aoRead, allowedOrigin)]_vars

\* C24: in every reachable state corsPolicyMode is all or localapps, whatever
\* flags the server was started with and whatever updates, successful or
\* failed, it has served.  (Fails: an update stores any mode it decodes.)
C24_ModeIsEnum == corsPolicyMode \in {"all", "localapps"}

\* C25: the Access-Control-Allow-Origin of a response of /audio_query or
\* /synthesis is absent, or * when the mode the request read was all, or the
\* Origin header of the request itself, whatever the settings and however
\* updates interleave with the request; an origin listed in allowedOrigin is
\* never given to a request that sent another origin.
C25_OnlyOwnOriginEchoed ==
    Wrapped
        => /\ \/ last.headers.acao = <<>>
              \/ last.headers.acao = <<Star>> /\ last.req.modeRead = <<"all">>
              \/ last.headers.acao = <<last.req.origin>>
           /\ \A i \in 1..Len(last.req.aoRead) :
                 \A j \in 1..Len(Split(last.req.aoRead[i], " ")) :
                     Split(last.req.aoRead[i], " ")[j] # last.req.origin
                        => last.headers.acao # <<Split(last.req.aoRead[i], " ")[j]>>

\* a request from http://evil.example that read localapps and an allowedOrigin
\* of http://good.example while an update was under way gets no header
C25_Witness ==
    /\ Wrapped
    /\ last.req.origin = OriginEvil
    /\ last.req.modeRead = <<"localapps">>
    /\ OriginGood \in Range(last.req.aoRead)
    /\ \E w \in Workers : workers[w].pc = "update_origin"
    /\ last.headers.acao = <<>>

\* C26: corsPolicyMode and allowedOrigin are changed by no step other than a
\* step of a POST /update-settings whose body decoded: every request to
\* /audio_query and /synthesis, whatever its outcome, GET /setting, requests
\* to / and to unknown paths, OPTIONS requests and non-POST requests to
\* /update-settings leave both as they are.
C26_OnlyUpdatesChangeSettings ==
    [][(corsPolicyMode' # corsPolicyMode \/ allowedOrigin' # allowedOrigin)
          => \E w \in Workers :
                /\ Stepped(w)
                /\ After(w).path = "/update-settings"
                /\ After(w).method = "POST"
                /\ ~After(w).input.settings.malformed]_vars

\* a GET /update-settings whose body asks for mode all has been answered 405,
\* and the settings are the ones the server started with
C26_Witness ==
    /\ last.req.path = "/update-settings" /\ last.req.method = "GET"
    /\ last.req.input.settings.mode = "all"
    /\ last.resp.status = 405
    /\ corsPolicyMode = "localapps" /\ allowedOrigin = EmptyStr

\* C27: a request to /audio_query or /synthesis that finds a corsPolicyMode
\* which is neither all nor localapps gets no Access-Control-Allow-Origin,
\* whatever its origin (app://, http://localhost and the origins listed in
\* allowedOrigin included); its response still carries Allow-Methods and
\* Allow-Headers, and unless it is an OPTIONS request it reaches the handler.
C27_UnknownModeAllowsNoOrigin ==
    (/\ Wrapped
     /\ last.req.modeRead # <<>>
     /\ last.req.modeRead[1] \notin {"all", "localapps"})
        => /\ last.headers.acao = <<>>
           /\ last.req.aoRead = <<>>
           /\ last.headers.acam # <<>>
           /\ ListItems(last.headers.acam[1]) = GetPostOptions
           /\ last.headers.acah = <<ContentType>>
           /\ last.reached <=> last.req.method # "OPTIONS"

\* the mode is bogus; a POST from the very origin allowedOrigin names reaches
\* the handler and gets no Allow-Origin
C27_Witness ==
    /\ Wrapped
    /\ last.req.modeRead = <<"bogus">> /\ corsPolicyMode = "bogus"
    /\ last.req.origin = OriginGood /\ allowedOrigin = OriginGood
    /\ last.req.method = "POST"
    /\ last.headers.acao = <<>>
    /\ last.reached

-----------------------------------------------------------------------------
(* The order of the checks *)

\* a raw speed or pitch that is given and is no integer from lo to hi
RawInvalid(raw, lo, hi) ==
    /\ raw # EmptyStr
    /\ ~\E s \in SpelledInts : s.raw = raw /\ s.n \in lo..hi

\* the status and the heading of the answer the first failing check gives, for
\* /audio_query: method, text and speaker, speed, pitch
FirstFailureOfAudioQuery(method, p) ==
    IF method # "POST" THEN <<405, "Only POST method is allowed">>
    ELSE IF p.text = "" \/ p.speaker = ""
    THEN <<400, "Missing required parameters: text and speaker">>
    ELSE IF RawInvalid(p.speed, 50, 200) THEN <<400, "Invalid speed parameter">>
    ELSE IF RawInvalid(p.pitch, -300, 300) THEN <<400, "Invalid pitch parameter">>
    ELSE <<200, "">>

\* the same for /synthesis: method, decoding, speed, pitch; 0 when no check fails
FirstFailureOfSynthesis(method, b) ==
    IF method # "POST" THEN <<405, "Only POST method is allowed">>
    ELSE IF b.malformed THEN <<400, "Failed to decode request body">>
    ELSE IF ~OptWithin(b.query.speed, 50, 200) THEN <<400, "Invalid speed">>
    ELSE IF ~OptWithin(b.query.pitch, -300, 300) THEN <<400, "Invalid pitch">>
    ELSE <<0, "">>

\* C28: the answer is the one of the first check that fails, in the order
\* method (405), text and speaker (400), speed (400), pitch (400) for
\* /audio_query and method (405), decoding (400), speed (400), pitch (400) for
\* /synthesis; speed and pitch both invalid give the speed's error, a missing
\* text with an invalid speed gives the missing-parameter error.
C28_FirstFailingCheckAnswers ==
    /\ (last.req.path = "/audio_query" /\ last.req.method # "" /\ last.reached)
          => <<last.resp.status, last.resp.body.what>> =
                 FirstFailureOfAudioQuery(last.req.method, last.req.input.params)
    /\ (last.req.path = "/synthesis" /\ last.req.method # "" /\ last.reached)
          => LET first == FirstFailureOfSynthesis(last.req.method, last.req.input.body)
             IN  IF first[1] = 0
                 THEN last.resp.status \notin {400, 405} /\ Len(last.req.calls) = 1
                 ELSE /\ <<last.resp.status, last.resp.body.what>> = first
                      /\ last.req.calls = <<>>

\* speed abc and pitch 1.5: the answer names the speed
C28_Witness ==
    /\ PostedAudioQuery
    /\ last.req.input.params.text = "hello" /\ last.req.input.params.speaker = "1"
    /\ last.req.input.params.speed = <<"a", "b", "c">>
    /\ last.req.input.params.pitch = <<"1", ".", "5">>
    /\ last.resp.status = 400
    /\ last.resp.body.what = "Invalid speed parameter"

====
